---- MODULE Spec2Model ----
\* imgdesc CLI (bin/index.js): pre-flight checks, the sequential per-image
\* loop around describeImage, the response normaliser and the output sink.
\*
\* Representation.
\*   A JavaScript string is a sequence of chunks; the chunk " " is whitespace,
\*   every other chunk is a run of text that neither starts nor ends with
\*   whitespace.  The empty string is <<>>.
\*   A file name is the string <<stem, ext>>; a path is a sequence of names.
\*   A JSON value is a tagged record ([t |-> "str", s |-> ...], ...); a parsed
\*   JSON object is a function from the keys it holds to JSON values.
\*   A provider response text is a sequence of tokens: whitespace, prose,
\*   braces, and "members" tokens that stand for a well-formed member list.
EXTENDS Integers, Sequences, FiniteSets, TLC

\* ------------------------------------------------------------------ bounds
MaxEntries == 2
MaxTextLen == 5

\* ------------------------------------------------------------ JS strings
WS == " "

RECURSIVE TrimStart(_, _)
TrimStart(s, ws) ==
    IF s = <<>> THEN <<>>
    ELSE IF Head(s) = ws THEN TrimStart(Tail(s), ws) ELSE s

RECURSIVE TrimEnd(_, _)
TrimEnd(s, ws) ==
    IF s = <<>> THEN <<>>
    ELSE IF s[Len(s)] = ws THEN TrimEnd(SubSeq(s, 1, Len(s) - 1), ws) ELSE s

\* String.prototype.trim, on a string of chunks
Trim(s) == TrimEnd(TrimStart(s, WS), WS)

\* String.prototype.toLowerCase on the extensions that occur
ToLowerCase(c) ==
    CASE c = ".PNG" -> ".png"
      [] c = ".JPG" -> ".jpg"
      [] OTHER -> c

\* ------------------------------------------------------------- JS values
Undefined == [t |-> "undefined"]
JNull == [t |-> "null"]
JStr(s) == [t |-> "str", s |-> s]
JNum(n) == [t |-> "num", n |-> n]
JBool(b) == [t |-> "bool", b |-> b]
JArr(a) == [t |-> "arr", a |-> a]
\* an object parsed from JSON: m maps its own keys to their values
JObj(m) == [t |-> "obj", m |-> m]
EmptyMembers == [k \in {} |-> JNull]

\* parsed.key, for an object; no key of the model is inherited
Get(o, key) == IF key \in DOMAIN o.m THEN o.m[key] ELSE Undefined

\* a ?? b
Coalesce(a, b) == IF a.t \in {"undefined", "null"} THEN b ELSE a

\* Boolean(v)
Truthy(v) ==
    CASE v.t = "undefined" -> FALSE
      [] v.t = "null" -> FALSE
      [] v.t = "str" -> v.s # <<>>
      [] v.t = "num" -> v.n # 0
      [] v.t = "bool" -> v.b
      [] OTHER -> TRUE

\* a || b
OrElse(a, b) == IF Truthy(a) THEN a ELSE b

NumToString(n) ==
    CASE n = 0 -> <<"0">>
      [] n = 42 -> <<"42">>
      [] OTHER -> <<"n">>

\* String(v) throws a TypeError for an object that cannot be converted to a
\* primitive: one whose own toString member (never callable in parsed JSON)
\* hides Object.prototype.toString; also when such an object is an element of
\* an array being joined
RECURSIVE StringThrows(_)
StringThrows(v) ==
    CASE v.t = "obj" -> "toString" \in DOMAIN v.m
      [] v.t = "arr" -> \E i \in 1..Len(v.a) : StringThrows(v.a[i])
      [] OTHER -> FALSE

RECURSIVE StringOf(_)
RECURSIVE JoinElems(_)
\* Array.prototype.join(","): null and undefined elements give ""
JoinElems(a) ==
    IF a = <<>> THEN <<>>
    ELSE LET h == IF Head(a).t \in {"undefined", "null"} THEN <<>>
                  ELSE StringOf(Head(a))
         IN IF Len(a) = 1 THEN h ELSE h \o <<",">> \o JoinElems(Tail(a))

\* String(v), for a value on which it does not throw
StringOf(v) ==
    CASE v.t = "undefined" -> <<"undefined">>
      [] v.t = "null" -> <<"null">>
      [] v.t = "str" -> v.s
      [] v.t = "num" -> NumToString(v.n)
      [] v.t = "bool" -> IF v.b THEN <<"true">> ELSE <<"false">>
      [] v.t = "arr" -> JoinElems(v.a)
      [] OTHER -> <<"[object Object]">>

\* ------------------------------------------------- provider response text
TWs == [k |-> "ws"]
TTxt == [k |-> "txt"]
TOpen == [k |-> "{"]
TClose == [k |-> "}"]
\* a well-formed, non-empty JSON member list ("key": value, ...) holding m
TMembers(m) == [k |-> "members", m |-> m]

\* String.prototype.trim, on a text of tokens
TrimText(text) == TrimEnd(TrimStart(text, TWs), TWs)

\* a lazy match: from the first "{" to the first "}" after it
RegexMatchLazy(text) ==
    LET opens == {i \in 1..Len(text) : text[i].k = "{"}
        first == CHOOSE i \in opens : \A j \in opens : i <= j
        closes == {j \in 1..Len(text) : text[j].k = "}" /\ j > first}
        last == CHOOSE j \in closes : \A i \in closes : j <= i
    IN IF opens = {} THEN <<>>
       ELSE IF closes = {} THEN <<>>
       ELSE SubSeq(text, first, last)

\* trimmed.match(/\{[\s\S]*\}/): from the first "{" to the last "}" after it;
\* <<>> stands for no match
RegexMatch(text) ==
    LET opens == {i \in 1..Len(text) : text[i].k = "{"}
        first == CHOOSE i \in opens : \A j \in opens : i <= j
        closes == {j \in 1..Len(text) : text[j].k = "}" /\ j > first}
        last == CHOOSE j \in closes : \A i \in closes : i <= j
    IN IF opens = {} THEN <<>>
       ELSE IF closes = {} THEN <<>>
       ELSE SubSeq(text, first, last)

\* JSON.parse throws unless the candidate is one value, here one object:
\* "{", an optional member list, "}", with whitespace allowed around each
JSONParseThrows(candidate) ==
    LET body == SelectSeq(candidate, LAMBDA tk : tk.k # "ws")
    IN ~(/\ Len(body) \in {2, 3}
         /\ body[1].k = "{"
         /\ body[Len(body)].k = "}"
         /\ Len(body) = 3 => body[2].k = "members")

JSONParse(candidate) ==
    LET body == SelectSeq(candidate, LAMBDA tk : tk.k # "ws")
    IN IF Len(body) = 3 THEN JObj(body[2].m) ELSE JObj(EmptyMembers)

parseStructuredOutput(text) ==
    IF text = <<>> THEN JNull
    ELSE LET trimmed == TrimText(text)
             candidate ==
                 IF trimmed # <<>> /\ trimmed[1].k = "{" THEN trimmed
                 ELSE RegexMatch(trimmed)
         IN IF candidate = <<>> THEN JNull
            ELSE IF JSONParseThrows(candidate) THEN JNull
            ELSE JSONParse(candidate)

\* ------------------------------------------------------------ normaliser
DESCRIPTION_UNAVAILABLE == <<"Description unavailable.">>
ALT_UNAVAILABLE == <<"Alt text unavailable.">>
UNCATEGORIZED == <<"uncategorized">>
ERROR_DESCRIPTION == <<"Error generating description.">>
ERROR_ALT == <<"Alt text unavailable due to error.">>
ERROR_CATEGORY == <<"error">>

\* path.basename and path.extname
Basename(p) == p[Len(p)]
ExtName(p) == IF Len(Basename(p)) >= 2 THEN Basename(p)[Len(Basename(p))] ELSE ""

\* typeof v === "string" ? v.trim() : String(v || "").trim()
CoerceThrows(v) == v.t # "str" /\ StringThrows(OrElse(v, JStr(<<>>)))
\* the conversion without the || "": String(v).trim()
CoerceFalsyToo(v) == IF v.t = "str" THEN Trim(v.s) ELSE Trim(StringOf(v))

Coerce(v) ==
    IF v.t = "str" THEN Trim(v.s) ELSE Trim(StringOf(OrElse(v, JStr(<<>>))))

descriptionValue(parsed) == Coalesce(Get(parsed, "description"), JStr(<<>>))

\* the alt without the altText fallback
altValueNoAltText(parsed) == Coalesce(Get(parsed, "alt"), JStr(<<>>))

altValue(parsed) ==
    Coalesce(Coalesce(Get(parsed, "alt"), Get(parsed, "altText")), JStr(<<>>))

\* parsed.tags.filter(Boolean).map(tag => String(tag).trim()).filter(Boolean)
TagsThrow(parsed) ==
    LET v == Get(parsed, "tags")
    IN v.t = "arr" /\ \E i \in 1..Len(v.a) : Truthy(v.a[i]) /\ StringThrows(v.a[i])

\* the tags without the filter after the conversion
TagsKeepBlank(parsed) ==
    LET v == Get(parsed, "tags")
        kept == SelectSeq(v.a, Truthy)
    IN IF v.t = "arr" THEN [i \in 1..Len(kept) |-> Trim(StringOf(kept[i]))] ELSE <<>>

Tags(parsed) ==
    LET v == Get(parsed, "tags")
        kept == SelectSeq(v.a, Truthy)
        mapped == [i \in 1..Len(kept) |-> Trim(StringOf(kept[i]))]
    IN IF v.t = "arr" THEN SelectSeq(mapped, LAMBDA tag : tag # <<>>) ELSE <<>>

\* String(parsed.category || parsed.type || "uncategorized").trim() || "uncategorized"
categoryValue(parsed) ==
    OrElse(OrElse(Get(parsed, "category"), Get(parsed, "type")), JStr(UNCATEGORIZED))

\* the category without the fallback after trimming
CategoryNoFallback(parsed) == Trim(StringOf(categoryValue(parsed)))

Category(parsed) ==
    LET c == Trim(StringOf(categoryValue(parsed)))
    IN IF c # <<>> THEN c ELSE UNCATEGORIZED

\* the record's name
RecordName(imagePath, parsed) == Basename(imagePath)

\* some String(...) conversion of the field normalisation throws
NormaliseThrows(parsed) ==
    \/ CoerceThrows(descriptionValue(parsed))
    \/ CoerceThrows(altValue(parsed))
    \/ TagsThrow(parsed)
    \/ StringThrows(categoryValue(parsed))

\* the record built from a parsed object
Normalise(imagePath, parsed) ==
    LET description == Coerce(descriptionValue(parsed))
        alt == Coerce(altValue(parsed))
        descriptionText ==
            IF description # <<>> THEN description ELSE DESCRIPTION_UNAVAILABLE
        altText ==
            IF alt # <<>> THEN alt
            ELSE IF descriptionText # <<>> THEN descriptionText
            ELSE ALT_UNAVAILABLE
    IN [name |-> RecordName(imagePath, parsed),
        description |-> descriptionText,
        alt |-> altText,
        tags |-> Tags(parsed),
        category |-> Category(parsed),
        src |-> imagePath]

\* a catch block that reuses the fallbacks of the success path
SentinelWithFallbacks(imagePath) ==
    [name |-> Basename(imagePath),
     description |-> DESCRIPTION_UNAVAILABLE,
     alt |-> ALT_UNAVAILABLE,
     tags |-> <<>>,
     category |-> ERROR_CATEGORY,
     src |-> imagePath]

\* the record of the catch block
Sentinel(imagePath) ==
    [name |-> Basename(imagePath),
     description |-> ERROR_DESCRIPTION,
     alt |-> ERROR_ALT,
     tags |-> <<>>,
     category |-> ERROR_CATEGORY,
     src |-> imagePath]

\* What reaches describeImage from the provider call:
\*   rejects     model.generateContent rejects
\*   noTextFn    the response has no text function; rawText is ""
\*   textThrows  response.response.text() throws
\*   text        response.response.text() returns the text
\*   unreadable  toInlineData throws: the image cannot be read, no call is made
RawText(outcome) == IF outcome.kind = "text" THEN outcome.text ELSE <<>>

\* the try block of describeImage throws
TryThrows(outcome) ==
    \/ outcome.kind \in {"rejects", "textThrows", "unreadable"}
    \/ TrimText(RawText(outcome)) = <<>>
    \/ ~Truthy(parseStructuredOutput(TrimText(RawText(outcome))))
    \/ NormaliseThrows(parseStructuredOutput(TrimText(RawText(outcome))))

\* an exception leaving an async function: the promise rejects
Thrown == [thrown |-> TRUE]
IsThrown(r) == "thrown" \in DOMAIN r

\* describeImage without its catch block: the exception escapes
CatchRethrows(imagePath) == Thrown

\* the catch block of describeImage: log, resolve with the sentinel
Catch(imagePath) == Sentinel(imagePath)

\* what the promise of describeImage settles with
describeImage(imagePath, outcome) ==
    IF TryThrows(outcome) THEN Catch(imagePath)
    ELSE Normalise(imagePath, parseStructuredOutput(TrimText(RawText(outcome))))

\* ------------------------------------------------------------ file system
SUPPORTED_EXTENSIONS == {".jpg", ".jpeg", ".png", ".webp", ".gif", ".bmp"}

\* names that occur in the file system of the model
FileNames ==
    {<<"a", ".jpg">>, <<"b", ".txt">>, <<"c", ".PNG">>, <<"d", ".gif">>, <<"e", ".tiff">>}
DirPath == <<<<".">>, <<"photos">>>>
FilePath(name) == <<<<".">>, name>>

\* directory listings: distinct names, at most MaxEntries of them
Listings ==
    {l \in UNION {[1..n -> FileNames] : n \in 0..MaxEntries} :
        \A i, j \in 1..Len(l) : i # j => l[i] # l[j]}

\* path.join(p, file): joins and normalises, which drops "." segments
Join(p, file) == SelectSeq(p, LAMBDA seg : seg # <<".">>) \o <<file>>

\* the extension compared without lower-casing it
SupportedCaseSensitive(p) == ExtName(p) \in SUPPORTED_EXTENSIONS

Supported(p) == ToLowerCase(ExtName(p)) \in SUPPORTED_EXTENSIONS

\* explicitKey || process.env.GEMINI_API_KEY || process.env.GOOGLE_API_KEY || ""
resolveApiKey(explicitKey, envGemini, envGoogle) ==
    IF explicitKey # <<>> THEN explicitKey
    ELSE IF envGemini # <<>> THEN envGemini
    ELSE IF envGoogle # <<>> THEN envGoogle
    ELSE <<>>

Keys == {<<>>, <<"key">>}

\* -------------------------------------------------------------- the sink
\* the strings of ss one after the other, each followed by sep
RECURSIVE Flatten(_, _)
Flatten(ss, sep) ==
    IF ss = <<>> THEN <<>> ELSE Head(ss) \o <<sep>> \o Flatten(Tail(ss), sep)

\* JSON.stringify(results, null, 2): the text of the array, key by key in
\* the order the record literal sets them
StringifyRecord(r) ==
    <<"{", "name:">> \o r.name
    \o <<"description:">> \o r.description
    \o <<"alt:">> \o r.alt
    \o <<"tags:", "[">> \o Flatten(r.tags, ",") \o <<"]">>
    \o <<"category:">> \o r.category
    \o <<"src:">> \o Flatten(r.src, "/") \o <<"}">>

Stringify(rs) ==
    <<"[">> \o Flatten([i \in 1..Len(rs) |-> StringifyRecord(rs[i])], ",") \o <<"]">>

NoFile == <<"ENOENT">>
OldFile == <<"[", "old", "]">>
NoOutput == <<>>

\* ------------------------------------------------------ provider replies
Slug == <<"red-shoe">>

\* a complete answer in the requested shape
FullMembers ==
    ("name" :> JStr(Slug))
    @@ ("description" :> JStr(<<WS, "A red shoe on white.", WS>>))
    @@ ("alt" :> JStr(<<"Red shoe">>))
    @@ ("tags" :> JArr(<<JStr(<<"shoe">>), JStr(<<"red">>)>>))
    @@ ("category" :> JStr(<<"product">>))

OnlyCategory == ("category" :> JStr(<<"product">>))

Text(tokens) == [kind |-> "text", text |-> tokens]

\* the replies of the pipeline runs: every kind of outcome once
Replies ==
    {[kind |-> "rejects"],
     [kind |-> "noTextFn"],
     [kind |-> "textThrows"],
     Text(<<TWs>>),
     Text(<<TTxt>>),
     Text(<<TOpen, TMembers(FullMembers), TClose, TWs, TTxt>>),
     Text(<<TOpen, TMembers(FullMembers), TClose>>),
     Text(<<TTxt, TWs, TOpen, TMembers(OnlyCategory), TClose, TWs, TTxt>>),
     Text(<<TWs, TOpen, TClose, TWs>>)}

\* the values a field of the answer takes in the runs of the normaliser
BadObject == JObj("toString" :> JNum(1))

DescriptionValues ==
    {Undefined, JNull, JStr(<<>>), JStr(<<WS>>), JStr(<<WS, "A cat.", WS>>),
     JNum(0), JNum(42), JBool(FALSE), JBool(TRUE), JArr(<<>>),
     JObj(EmptyMembers), BadObject}

AltValues ==
    {Undefined, JNull, JStr(<<>>), JStr(<<WS>>), JStr(<<WS, "Cat", WS>>),
     JNum(0), JBool(TRUE)}

AltTextValues == {Undefined, JStr(<<>>), JStr(<<WS>>), JStr(<<WS, "Cat photo">>)}

TagsValues ==
    {Undefined, JStr(<<"cat">>), JArr(<<>>),
     JArr(<<JStr(<<"Cat">>), JStr(<<>>), JStr(<<WS, "Dog", WS>>), JNum(42), JNull>>),
     JArr(<<JStr(<<WS>>), JBool(FALSE), JNum(0)>>),
     JArr(<<JStr(<<"cat">>), JStr(<<"cat">>), JObj(EmptyMembers), JBool(TRUE)>>),
     JArr(<<JArr(<<>>), JArr(<<JStr(<<WS>>)>>)>>),
     JArr(<<JStr(<<"cat">>), BadObject>>)}

CategoryValues ==
    {Undefined, JNull, JStr(<<>>), JStr(<<WS>>), JStr(<<WS, "product", WS>>),
     JStr(<<"error">>), JNum(0), JNum(42), JArr(<<>>), BadObject}

TypeValues == {Undefined, JStr(<<"photo">>), JStr(<<WS>>)}

NameValues == {Undefined, JStr(<<>>), JStr(Slug)}

\* the members of an object holding the fields that are not undefined
MkMembers(d, a, at, tg, c, ty, n) ==
    LET f == [description |-> d, alt |-> a, altText |-> at, tags |-> tg,
              category |-> c, type |-> ty, name |-> n]
    IN [k \in {k \in DOMAIN f : f[k].t # "undefined"} |-> f[k]]

RichMembers ==
    {MkMembers(d, a, at, Undefined, Undefined, Undefined, Undefined) :
        d \in DescriptionValues, a \in AltValues, at \in AltTextValues}
    \cup {MkMembers(Undefined, Undefined, Undefined, tg, c, ty, n) :
        tg \in TagsValues, c \in CategoryValues, ty \in TypeValues, n \in NameValues}
    \cup {MkMembers(d, a, Undefined, tg, c, Undefined, n) :
        d \in {JStr(<<WS, "A cat.", WS>>), JNum(0), BadObject},
        a \in {Undefined, JStr(<<WS, "Cat", WS>>)},
        tg \in {JArr(<<>>), JArr(<<JStr(<<"cat">>)>>),
                JArr(<<JStr(<<"cat">>), BadObject>>)},
        c \in {Undefined, JStr(<<"error">>), JNum(42)},
        n \in {Undefined, JStr(Slug)}}

\* the text of an object, as JSON.stringify would give it
ObjectText(m) ==
    IF DOMAIN m = {} THEN <<TOpen, TClose>> ELSE <<TOpen, TMembers(m), TClose>>

\* every text of at most MaxTextLen tokens around one member list
Tokens == {TWs, TTxt, TOpen, TClose, TMembers(OnlyCategory)}
Texts == UNION {[1..n -> Tokens] : n \in 0..MaxTextLen}

\* the replies of the runs of the normaliser
AllReplies ==
    Replies
    \cup {Text(ObjectText(m)) : m \in RichMembers}
    \cup {Text(tokens) : tokens \in Texts}

\* ------------------------------------------------------------------ state
VARIABLES
    pc,            \* where main is: start, client, collect, loop, done
    inputPath,     \* program.args[0]; <<>> when empty
    fsKind,        \* what inputPath names: none, file, dir, vanishes, dirUnreadable
    dirEntries,    \* fs.readdirSync(inputPath) of a directory
    json,          \* options.json
    outFile,       \* the content of the file at options.output
    apiKey,        \* main's apiKey
    model,         \* main's model: "none" or "client"
    imageFiles,    \* main's imageFiles
    cursor,        \* files the for-of loop has taken
    inFlight,      \* indexes of files whose provider call has not settled
    pending,       \* the settled value of describeImage, not yet pushed
    replies,       \* the provider outcome of each file processed so far
    results,       \* main's results
    stdoutJson,    \* the JSON text printed by --json
    console,       \* the messages logged, in order
    exitCode,      \* the process's exit code
    providerCalls, \* calls of model.generateContent made
    fileWrites,    \* calls of fs.writeFileSync made
    previous       \* what an earlier run over the same input left, or NoRun

vars ==
    <<pc, inputPath, fsKind, dirEntries, json, outFile, apiKey, model,
      imageFiles, cursor, inFlight, pending, replies, results, stdoutJson,
      console, exitCode, providerCalls, fileWrites, previous>>

NoRecord == [none |-> TRUE]
NoRun == [none |-> TRUE]

\* the input path and what the file system holds there
Inputs ==
    {[path |-> <<>>, kind |-> "none", entries |-> <<>>]}
    \cup {[path |-> FilePath(n), kind |-> k, entries |-> <<>>] :
             n \in FileNames, k \in {"none", "file", "vanishes"}}
    \cup {[path |-> DirPath, kind |-> "dir", entries |-> l] : l \in Listings}
    \cup {[path |-> DirPath, kind |-> "dirUnreadable", entries |-> <<>>]}

InitWith(inputs) ==
    /\ \E in \in inputs :
          /\ inputPath = in.path
          /\ fsKind = in.kind
          /\ dirEntries = in.entries
    /\ json \in BOOLEAN
    /\ outFile \in {NoFile, OldFile}
    /\ pc = "start"
    /\ apiKey = <<>>
    /\ model = "none"
    /\ imageFiles = <<>>
    /\ cursor = 0
    /\ inFlight = {}
    /\ pending = NoRecord
    /\ replies = <<>>
    /\ results = <<>>
    /\ stdoutJson = NoOutput
    /\ console = <<>>
    /\ exitCode = 0
    /\ providerCalls = 0
    /\ fileWrites = 0
    /\ previous = NoRun

Init == InitWith(Inputs)

\* console.error(message); process.exit(1), after the messages in logged
Fatal(logged, message) ==
    /\ console' = logged \o <<message>>
    /\ exitCode' = 1
    /\ pc' = "done"

\* main: the banner, then ensureInputExists(inputPath)
EnsureInputExists ==
    /\ pc = "start"
    /\ IF inputPath = <<>>
       THEN Fatal(console \o <<"start">>, "error: no input path")
       ELSE IF fsKind = "none"
       THEN Fatal(console \o <<"start">>, "error: input path does not exist")
       ELSE /\ pc' = "client"
            /\ console' = console \o <<"start">>
            /\ exitCode' = exitCode
    /\ UNCHANGED <<previous, inputPath, fsKind, dirEntries, json, outFile, apiKey, model,
                   imageFiles, cursor, inFlight, pending, replies, results,
                   stdoutJson, providerCalls, fileWrites>>

\* createGeminiClient without its check of the key: the client is built
\* with whatever key was resolved
CreateGeminiClientNoKeyCheck ==
    /\ pc = "client"
    /\ \E explicitKey \in Keys, envGemini \in Keys, envGoogle \in Keys,
          ctorThrows \in BOOLEAN :
          /\ apiKey' = resolveApiKey(explicitKey, envGemini, envGoogle)
          /\ IF ctorThrows
             THEN /\ Fatal(console, "error: client initialisation failed")
                  /\ model' = model
             ELSE /\ model' = "client"
                  /\ pc' = "collect"
                  /\ UNCHANGED <<console, exitCode>>
    /\ UNCHANGED <<previous, inputPath, fsKind, dirEntries, json, outFile, imageFiles,
                   cursor, inFlight, pending, replies, results, stdoutJson,
                   providerCalls, fileWrites>>

\* main: resolveApiKey(options.apiKey), then createGeminiClient(apiKey, model)
CreateGeminiClient ==
    /\ pc = "client"
    /\ \E explicitKey \in Keys, envGemini \in Keys, envGoogle \in Keys,
          ctorThrows \in BOOLEAN :
          /\ apiKey' = resolveApiKey(explicitKey, envGemini, envGoogle)
          /\ IF apiKey' = <<>>
             THEN /\ Fatal(console, "error: no API key")
                  /\ model' = model
             ELSE IF ctorThrows
             THEN /\ Fatal(console, "error: client initialisation failed")
                  /\ model' = model
             ELSE /\ model' = "client"
                  /\ pc' = "collect"
                  /\ UNCHANGED <<console, exitCode>>
    /\ UNCHANGED <<previous, inputPath, fsKind, dirEntries, json, outFile, imageFiles,
                   cursor, inFlight, pending, replies, results, stdoutJson,
                   providerCalls, fileWrites>>

\* the list collectImageFiles(p) returns for a readable directory
DirectoryImages(p, entries) ==
    LET kept == SelectSeq(entries, LAMBDA file : Supported(<<file>>))
    IN [i \in 1..Len(kept) |-> Join(p, kept[i])]

\* main without the return for an empty list: the run goes on to the sink
CollectImageFilesNoEmptyCheck ==
    /\ pc = "collect"
    /\ IF fsKind \in {"none", "vanishes"}
       THEN /\ Fatal(console, "error: invalid input path")
            /\ imageFiles' = imageFiles
       ELSE IF fsKind = "dirUnreadable"
       THEN /\ Fatal(console, "error: unexpected")
            /\ imageFiles' = imageFiles
       ELSE IF fsKind = "dir"
       THEN /\ imageFiles' = DirectoryImages(inputPath, dirEntries)
            /\ pc' = "loop"
            /\ UNCHANGED <<console, exitCode>>
       ELSE IF ~Supported(inputPath)
       THEN /\ Fatal(console, "error: unsupported image format")
            /\ imageFiles' = imageFiles
       ELSE /\ imageFiles' = <<inputPath>>
            /\ pc' = "loop"
            /\ UNCHANGED <<console, exitCode>>
    /\ UNCHANGED <<previous, inputPath, fsKind, dirEntries, json, outFile, apiKey, model,
                   cursor, inFlight, pending, replies, results, stdoutJson,
                   providerCalls, fileWrites>>

\* main: collectImageFiles(inputPath), then the check for an empty list
CollectImageFiles ==
    /\ pc = "collect"
    /\ IF fsKind \in {"none", "vanishes"}
       THEN \* fs.statSync throws in isDirectory
            /\ Fatal(console, "error: invalid input path")
            /\ imageFiles' = imageFiles
       ELSE IF fsKind = "dirUnreadable"
       THEN \* fs.readdirSync throws; main rejects and its catch handler exits
            /\ Fatal(console, "error: unexpected")
            /\ imageFiles' = imageFiles
       ELSE IF fsKind = "dir"
       THEN /\ imageFiles' = DirectoryImages(inputPath, dirEntries)
            /\ exitCode' = exitCode
            /\ IF imageFiles' = <<>>
               THEN /\ console' = console \o <<"warning: no supported images">>
                    /\ pc' = "done"
               ELSE /\ console' = console
                    /\ pc' = "loop"
       ELSE IF ~Supported(inputPath)
       THEN /\ Fatal(console, "error: unsupported image format")
            /\ imageFiles' = imageFiles
       ELSE /\ imageFiles' = <<inputPath>>
            /\ pc' = "loop"
            /\ UNCHANGED <<console, exitCode>>
    /\ UNCHANGED <<previous, inputPath, fsKind, dirEntries, json, outFile, apiKey, model,
                   cursor, inFlight, pending, replies, results, stdoutJson,
                   providerCalls, fileWrites>>

\* toInlineData(imagePath) throws for an extension without a MIME type and
\* when fs.readFileSync throws
toInlineDataThrows(imagePath, readable) ==
    ToLowerCase(ExtName(imagePath)) \notin SUPPORTED_EXTENSIONS \/ ~readable

\* a loop that does not await describeImage
AwaitedNever == TRUE

\* the for-of loop takes its next file only when the awaited describeImage
\* of the file before has settled
Awaited == inFlight = {}

\* main's loop takes the next file and calls describeImage, which runs to
\* its await of model.generateContent, or to its catch block when
\* toInlineData throws
DescribeBegin ==
    /\ pc = "loop"
    /\ cursor < Len(imageFiles)
    /\ pending = NoRecord
    /\ Awaited
    /\ cursor' = cursor + 1
    /\ \E readable \in BOOLEAN :
          IF ~toInlineDataThrows(imageFiles[cursor + 1], readable)
          THEN /\ inFlight' = inFlight \cup {cursor + 1}
               /\ providerCalls' = providerCalls + 1
               /\ console' = console \o <<"processing">>
               /\ UNCHANGED <<pending, replies>>
          ELSE /\ pending' = describeImage(imageFiles[cursor + 1], [kind |-> "unreadable"])
               /\ replies' = Append(replies, [kind |-> "unreadable"])
               /\ console' = console \o <<"processing", "error: describe">>
               /\ UNCHANGED <<inFlight, providerCalls>>
    /\ UNCHANGED <<previous, pc, inputPath, fsKind, dirEntries, json, outFile, apiKey,
                   model, imageFiles, results, stdoutJson, exitCode, fileWrites>>

\* the provider call settles with an outcome of R; describeImage resumes,
\* normalises and settles
ProviderSettle(R) ==
    /\ pc = "loop"
    /\ \E i \in inFlight, outcome \in R :
          /\ inFlight' = inFlight \ {i}
          /\ pending' = describeImage(imageFiles[i], outcome)
          /\ replies' = Append(replies, outcome)
          /\ console' = IF TryThrows(outcome)
                        THEN console \o <<"error: describe">> ELSE console
    /\ UNCHANGED <<previous, pc, inputPath, fsKind, dirEntries, json, outFile, apiKey,
                   model, imageFiles, cursor, results, stdoutJson, exitCode,
                   providerCalls, fileWrites>>

\* a loop that keeps only the records of files that did not fail
PushSuccessfulOnly ==
    /\ pc = "loop"
    /\ pending # NoRecord
    /\ pending' = NoRecord
    /\ results' = IF pending.category = ERROR_CATEGORY THEN results
                  ELSE Append(results, pending)
    /\ UNCHANGED <<pc, console, exitCode>>
    /\ UNCHANGED <<previous, inputPath, fsKind, dirEntries, json, outFile, apiKey, model,
                   imageFiles, cursor, inFlight, replies, stdoutJson,
                   providerCalls, fileWrites>>

\* main resumes from its await: results.push(description); a rejection of
\* describeImage would reject main, whose catch handler exits with 1
Push ==
    /\ pc = "loop"
    /\ pending # NoRecord
    /\ pending' = NoRecord
    /\ IF IsThrown(pending)
       THEN /\ Fatal(console, "error: unexpected")
            /\ results' = results
       ELSE /\ results' = Append(results, pending)
            /\ UNCHANGED <<pc, console, exitCode>>
    /\ UNCHANGED <<previous, inputPath, fsKind, dirEntries, json, outFile, apiKey, model,
                   imageFiles, cursor, inFlight, replies, stdoutJson,
                   providerCalls, fileWrites>>

LoopDone ==
    /\ pc = "loop"
    /\ cursor = Len(imageFiles)
    /\ inFlight = {}
    /\ pending = NoRecord

\* a sink that prints the JSON and writes the file as well
PrintJsonAndWrite ==
    /\ LoopDone
    /\ json
    /\ stdoutJson' = Stringify(results)
    /\ outFile' = Stringify(results)
    /\ fileWrites' = fileWrites + 1
    /\ console' = console \o <<"json", "output file created", "done">>
    /\ pc' = "done"
    /\ UNCHANGED <<previous, inputPath, fsKind, dirEntries, json, apiKey, model,
                   imageFiles, cursor, inFlight, pending, replies, results,
                   exitCode, providerCalls>>

\* main after the loop with --json: print the JSON, then the banner
PrintJson ==
    /\ LoopDone
    /\ json
    /\ stdoutJson' = Stringify(results)
    /\ console' = console \o <<"json", "done">>
    /\ pc' = "done"
    /\ UNCHANGED <<previous, inputPath, fsKind, dirEntries, json, outFile, apiKey, model,
                   imageFiles, cursor, inFlight, pending, replies, results,
                   exitCode, providerCalls, fileWrites>>

\* writeOutputFile without its try/catch: a failed write rejects main, whose
\* catch handler exits with 1
WriteOutputFileNoCatch ==
    /\ LoopDone
    /\ ~json
    /\ fileWrites' = fileWrites + 1
    /\ \E written \in {"all", "nothing", "truncated"} :
          IF written = "all"
          THEN /\ outFile' = Stringify(results)
               /\ console' = console \o <<"output file created", "done">>
               /\ exitCode' = exitCode
          ELSE /\ outFile' = IF written = "nothing" THEN outFile ELSE <<>>
               /\ console' = console \o <<"error: unexpected">>
               /\ exitCode' = 1
    /\ pc' = "done"
    /\ UNCHANGED <<previous, inputPath, fsKind, dirEntries, json, apiKey, model,
                   imageFiles, cursor, inFlight, pending, replies, results,
                   stdoutJson, providerCalls>>

\* writeOutputFile that appends to the file instead of replacing it
WriteOutputFileAppends ==
    /\ LoopDone
    /\ ~json
    /\ fileWrites' = fileWrites + 1
    /\ \E written \in {"all", "nothing"} :
          IF written = "all"
          THEN /\ outFile' = (IF outFile = NoFile THEN <<>> ELSE outFile)
                             \o Stringify(results)
               /\ console' = console \o <<"output file created", "done">>
          ELSE /\ outFile' = outFile
               /\ console' = console \o <<"error: write", "done">>
    /\ pc' = "done"
    /\ UNCHANGED <<previous, inputPath, fsKind, dirEntries, json, apiKey, model,
                   imageFiles, cursor, inFlight, pending, replies, results,
                   stdoutJson, exitCode, providerCalls>>

\* main after the loop without --json: writeOutputFile(results, options.output),
\* whose catch block logs a failed write, then the banner
WriteOutputFile ==
    /\ LoopDone
    /\ ~json
    /\ fileWrites' = fileWrites + 1
    /\ \E written \in {"all", "nothing", "truncated"} :
          IF written = "all"
          THEN /\ outFile' = Stringify(results)
               /\ console' = console \o <<"output file created", "done">>
          ELSE /\ outFile' = IF written = "nothing" THEN outFile ELSE <<>>
               /\ console' = console \o <<"error: write", "done">>
    /\ pc' = "done"
    /\ UNCHANGED <<previous, inputPath, fsKind, dirEntries, json, apiKey, model,
                   imageFiles, cursor, inFlight, pending, replies, results,
                   stdoutJson, exitCode, providerCalls>>

Next ==
    \/ EnsureInputExists
    \/ CreateGeminiClient
    \/ CollectImageFiles
    \/ DescribeBegin
    \/ ProviderSettle(Replies)
    \/ Push
    \/ PrintJson
    \/ WriteOutputFile

Spec == Init /\ [][Next]_vars

\* The event loop runs every continuation that is ready, and every provider
\* call settles: no step that is possible is put off for ever.
SpecLive == Init /\ [][Next]_vars /\ WF_vars(Next)

\* ---------------------------------------------------------------- re-runs
\* The process is started again over the same input and options, with the
\* output file as the run before left it; what that run saw and produced is
\* kept in previous.
Rerun ==
    /\ pc = "done"
    /\ exitCode = 0
    /\ previous = NoRun
    /\ previous' = [replies |-> replies, results |-> results,
                    outFile |-> outFile, stdoutJson |-> stdoutJson,
                    console |-> console]
    /\ pc' = "start"
    /\ apiKey' = <<>>
    /\ model' = "none"
    /\ imageFiles' = <<>>
    /\ cursor' = 0
    /\ inFlight' = {}
    /\ pending' = NoRecord
    /\ replies' = <<>>
    /\ results' = <<>>
    /\ stdoutJson' = NoOutput
    /\ console' = <<>>
    /\ exitCode' = 0
    /\ providerCalls' = 0
    /\ fileWrites' = 0
    /\ UNCHANGED <<inputPath, fsKind, dirEntries, json, outFile>>

\* a provider that answers a file as it answered it in the run before
SameReplies ==
    IF previous = NoRun THEN Replies
    ELSE IF Len(replies) < Len(previous.replies)
    THEN {previous.replies[Len(replies) + 1]}
    ELSE {}

\* DescribeBegin, with a file unreadable now exactly if it was unreadable in
\* the run before
DescribeBeginAgain ==
    /\ DescribeBegin
    /\ previous # NoRun =>
          /\ cursor < Len(previous.replies)
          /\ (pending' # NoRecord) <=> (previous.replies[cursor + 1].kind = "unreadable")

NextRerun ==
    \/ EnsureInputExists
    \/ CreateGeminiClient
    \/ CollectImageFiles
    \/ DescribeBeginAgain
    \/ ProviderSettle(SameReplies)
    \/ Push
    \/ PrintJson
    \/ WriteOutputFile
    \/ Rerun

\* runs over a directory, each followed by one more run over it
InitRerun ==
    InitWith({[path |-> DirPath, kind |-> "dir", entries |-> l] : l \in Listings})

SpecRerun == InitRerun /\ [][NextRerun]_vars

\* the runs of the normaliser: one supported file, any reply
InitNorm ==
    InitWith({[path |-> FilePath(<<"a", ".jpg">>), kind |-> "file", entries |-> <<>>]})

NextNorm ==
    \/ EnsureInputExists
    \/ CreateGeminiClient
    \/ CollectImageFiles
    \/ DescribeBegin
    \/ ProviderSettle(AllReplies)
    \/ Push
    \/ PrintJson
    \/ WriteOutputFile

SpecNorm == InitNorm /\ [][NextNorm]_vars

\* ================================================================ claims
\* the input fails validation: no path, nothing at the path, a path that
\* cannot be examined or listed, or a single file of an unsupported format
InputInvalid ==
    \/ inputPath = <<>>
    \/ fsKind \in {"none", "vanishes", "dirUnreadable"}
    \/ fsKind = "file" /\ ToLowerCase(ExtName(inputPath)) \notin SUPPORTED_EXTENSIONS

\* the run has failed a pre-flight check: the input, the credential or the
\* construction of the client
PreflightFailed ==
    \/ InputInvalid
    \/ pc \notin {"start", "client"} /\ (apiKey = <<>> \/ model = "none")

\* processing of a file failed in one of the ways C2 lists
FailedOutcome(outcome) ==
    \/ outcome.kind \in {"rejects", "textThrows", "unreadable"}
    \/ TrimText(RawText(outcome)) = <<>>
    \/ parseStructuredOutput(TrimText(RawText(outcome))) = JNull

IsErrorRecord(r) == r.category = <<"error">>

\* C1: a run that passes pre-flight ends with exactly one record per resolved
\* file, in the resolver's order, record i carrying the i-th resolved path
\* unchanged as src, whatever the outcomes of the provider were; records are
\* only ever appended in that order.
C1_OneRecordPerFile ==
    /\ Len(results) <= Len(imageFiles)
    /\ \A i \in 1..Len(results) : results[i].src = imageFiles[i]
    /\ (pc = "done" /\ ~PreflightFailed) => Len(results) = Len(imageFiles)

\* a finished run of two files whose first file failed and whose second
\* file was described
C1_Witness ==
    /\ pc = "done"
    /\ Len(imageFiles) = 2
    /\ Len(results) = 2
    /\ IsErrorRecord(results[1])
    /\ ~IsErrorRecord(results[2])

\* C2: whenever processing of a file fails in describeImage (provider call
\* throws, image unreadable, no text after trimming, no JSON object found,
\* malformed JSON) its record is exactly the sentinel, with the file's base
\* name and path, and describeImage never settles with an exception.
C2_FailureGivesSentinel ==
    /\ ~IsThrown(pending)
    /\ \A i \in 1..Len(results) :
          FailedOutcome(replies[i]) =>
              results[i] = [name |-> imageFiles[i][Len(imageFiles[i])],
                            description |-> <<"Error generating description.">>,
                            alt |-> <<"Alt text unavailable due to error.">>,
                            tags |-> <<>>,
                            category |-> <<"error">>,
                            src |-> imageFiles[i]]

\* a record appended for a reply whose text held braces but no parsable object
C2_Witness ==
    \E i \in 1..Len(results) :
        /\ replies[i].kind = "text"
        /\ \E j \in 1..Len(replies[i].text) : replies[i].text[j].k = "{"
        /\ parseStructuredOutput(TrimText(replies[i].text)) = JNull
        /\ IsErrorRecord(results[i])

\* a JavaScript string of the model that is not empty
NonEmptyString(v) ==
    /\ DOMAIN v = 1..Len(v)
    /\ Len(v) > 0
    /\ \A i \in 1..Len(v) : v[i] \in STRING

\* C3: every record appended to the results has the six fields name,
\* description, alt, tags, category and src; description, alt and category
\* are non-empty strings, and tags is a sequence of non-empty strings without
\* leading or trailing whitespace.
C3_RecordsComplete ==
    \A i \in 1..Len(results) :
        LET r == results[i]
        IN /\ DOMAIN r = {"name", "description", "alt", "tags", "category", "src"}
           /\ NonEmptyString(r.name)
           /\ NonEmptyString(r.description)
           /\ NonEmptyString(r.alt)
           /\ NonEmptyString(r.category)
           /\ r.src = imageFiles[i]
           /\ DOMAIN r.tags = 1..Len(r.tags)
           /\ \A j \in 1..Len(r.tags) :
                 /\ NonEmptyString(r.tags[j])
                 /\ r.tags[j][1] # " "
                 /\ r.tags[j][Len(r.tags[j])] # " "

\* a record built from an answer whose category and type were only whitespace
\* or empty and whose tags held entries to drop
C3_Witness ==
    \E i \in 1..Len(results) :
        /\ replies[i].kind = "text"
        /\ ~TryThrows(replies[i])
        /\ LET parsed == parseStructuredOutput(TrimText(replies[i].text))
           IN /\ Get(parsed, "category") = JStr(<<" ">>)
              /\ Get(parsed, "type") = JStr(<<" ">>)
              /\ Get(parsed, "tags").t = "arr"
              /\ Len(Get(parsed, "tags").a) > Len(results[i].tags)

C5_NoCallsOnFatal ==
    (PreflightFailed \/ exitCode = 1) =>
        /\ providerCalls = 0
        /\ inFlight = {}
        /\ fileWrites = 0
        /\ outFile \in {NoFile, OldFile}
        /\ stdoutJson = NoOutput

\* a run given the single file e.tiff that ended with the unsupported-format
\* error
C5_Witness ==
    /\ pc = "done"
    /\ exitCode = 1
    /\ fsKind = "file"
    /\ ExtName(inputPath) = ".tiff"
    /\ apiKey # <<>>
    /\ model = "client"

FileHoldsResults == outFile = Stringify(results)
\* the sink's text of the collection was printed to standard output
StdoutHoldsResults == stdoutJson = Stringify(results)

\* C7 as claimed: in every run that passes pre-flight exactly one of the two
\* outputs happens, the file without --json or standard output with --json.
C7_AsClaimed ==
    (pc = "done" /\ ~PreflightFailed) =>
        /\ FileHoldsResults \/ StdoutHoldsResults
        /\ ~(FileHoldsResults /\ StdoutHoldsResults)
        /\ FileHoldsResults <=> ~json

\* C7 amended: in every run that passes pre-flight and resolves at least one
\* file exactly one of the two outputs is attempted: with --json the JSON is
\* printed and no file is written; without it the file is written once, and
\* either it then holds the JSON or the failed write is logged; nothing is
\* printed as JSON.  A run that resolves no file attempts neither.
C7_ExactlyOneSink ==
    (pc = "done" /\ ~PreflightFailed) =>
        IF imageFiles = <<>>
        THEN fileWrites = 0 /\ stdoutJson = NoOutput /\ outFile \in {NoFile, OldFile}
        ELSE IF json
        THEN StdoutHoldsResults /\ fileWrites = 0 /\ outFile \in {NoFile, OldFile}
        ELSE /\ fileWrites = 1
             /\ stdoutJson = NoOutput
             /\ \/ FileHoldsResults
                \/ \E k \in 1..Len(console) : console[k] = "error: write"

\* a finished run without --json whose file holds the JSON of two records
C7_Witness ==
    /\ pc = "done"
    /\ ~json
    /\ Len(results) = 2
    /\ FileHoldsResults
    /\ stdoutJson = NoOutput

\* C8: a failed write of the output file is caught and logged, leaves the
\* collection as it was, is followed by the success banner, and the process
\* still exits with 0; the banner follows every attempt of the sink.
C8_WriteFailureIsNotFatal ==
    [][(fileWrites' # fileWrites \/ stdoutJson' # stdoutJson) =>
          /\ results' = results
          /\ Len(results') = Len(imageFiles)
          /\ exitCode' = 0
          /\ pc' = "done"
          /\ Len(console') = Len(console) + 2
          /\ console'[Len(console')] = "done"
          /\ (fileWrites' # fileWrites /\ outFile' # Stringify(results)) =>
                console'[Len(console') - 1] = "error: write"]_vars

\* a finished run whose write failed after one file failed and one did not
C8_Witness ==
    /\ pc = "done"
    /\ exitCode = 0
    /\ fileWrites = 1
    /\ ~FileHoldsResults
    /\ Len(results) = 2
    /\ IsErrorRecord(results[1])
    /\ ~IsErrorRecord(results[2])
    /\ console[Len(console)] = "done"
    /\ console[Len(console) - 1] = "error: write"

\* the records of rs whose file did not fail
RECURSIVE Successful(_, _)
Successful(rs, os) ==
    IF rs = <<>> THEN <<>>
    ELSE IF TryThrows(Head(os)) THEN Successful(Tail(rs), Tail(os))
    ELSE <<Head(rs)>> \o Successful(Tail(rs), Tail(os))

\* the JSON text the run put out, to the file or to standard output
Emitted == IF json THEN stdoutJson ELSE outFile
OutputEmitted ==
    /\ pc = "done"
    /\ IF json THEN stdoutJson # NoOutput
       ELSE \E k \in 1..Len(console) : console[k] = "output file created"

\* C9: the output that is written holds no entry for a failed file, only
\* the records of the files described successfully.
C9_AsClaimed ==
    OutputEmitted => Emitted = Stringify(Successful(results, replies))

\* What the code does where C9 and the README (troubleshooting, section 4)
\* say that failed files have no entry: the output holds one entry for every
\* resolved file, in order; the entry of a failed file is the sentinel record
\* with category "error" and the file's path as src.
C9_FailedFilesAppear ==
    OutputEmitted =>
        /\ Emitted = Stringify(results)
        /\ Len(results) = Len(imageFiles)
        /\ \A i \in 1..Len(imageFiles) :
              /\ results[i].src = imageFiles[i]
              /\ TryThrows(replies[i]) =>
                    /\ IsErrorRecord(results[i])
                    /\ results[i].description = <<"Error generating description.">>

\* an output of two entries, the first one of a failed file
C9_Witness ==
    /\ OutputEmitted
    /\ Len(results) = 2
    /\ TryThrows(replies[1])
    /\ ~TryThrows(replies[2])
    /\ Emitted = Stringify(<<Sentinel(imageFiles[1]), results[2]>>)

\* C10: when the parsed answer supplies a non-empty name the record's name
\* is that name, trimmed; the record's name is the file's base name only
\* when the answer has no name or processing failed.
C10_NameFromProvider ==
    \A i \in 1..Len(results) :
        LET parsed == parseStructuredOutput(TrimText(RawText(replies[i])))
            supplied == IF Get(parsed, "name").t = "str"
                        THEN Trim(Get(parsed, "name").s) ELSE <<>>
        IN IF ~TryThrows(replies[i]) /\ supplied # <<>>
           THEN results[i].name = supplied
           ELSE results[i].name = Basename(imageFiles[i])

\* C11: a record's category is "error" exactly when processing of its file
\* failed; no answer that was normalised successfully gives a record with
\* category "error".
C11_ErrorIffFailed ==
    \A i \in 1..Len(results) :
        IsErrorRecord(results[i]) <=> TryThrows(replies[i])

\* the write of the output file succeeded in the run whose log is given
WriteSucceeded(log) == \E k \in 1..Len(log) : log[k] = "output file created"

\* C12: a second run over the same input and options, with the provider
\* answering each file as before, builds the same collection and puts out the
\* same text: the same JSON on standard output, or an output file with the
\* same content when both writes succeed, whatever the file held before.
C12_RerunIsIdentical ==
    (previous # NoRun /\ pc = "done" /\ exitCode = 0) =>
        /\ results = previous.results
        /\ stdoutJson = previous.stdoutJson
        /\ (WriteSucceeded(console) /\ WriteSucceeded(previous.console)) =>
              outFile = previous.outFile

\* a second run over two files, one of them failed, that wrote the file again
\* over the output of the first run
C12_Witness ==
    /\ previous # NoRun
    /\ pc = "done"
    /\ Len(results) = 2
    /\ IsErrorRecord(results[1])
    /\ ~IsErrorRecord(results[2])
    /\ WriteSucceeded(console)
    /\ WriteSucceeded(previous.console)
    /\ outFile = Stringify(results)

\* the positions of the listing whose entry has a supported extension,
\* compared without regard to case
ImagePositions ==
    {i \in 1..Len(dirEntries) :
        LET ext == dirEntries[i][Len(dirEntries[i])]
            lower == IF ext = ".PNG" THEN ".png" ELSE IF ext = ".JPG" THEN ".jpg" ELSE ext
        IN lower \in {".jpg", ".jpeg", ".png", ".webp", ".gif", ".bmp"}}

\* C13: for a directory the resolved list is exactly the entries of the
\* listing whose extension, compared case-insensitively, is one of .jpg,
\* .jpeg, .png, .webp, .gif, .bmp, in the order of the listing, none added,
\* dropped, repeated or moved; each is the entry's path inside the directory.
C13_DirectoryFilter ==
    (fsKind = "dir" /\ model = "client" /\ pc \in {"loop", "done"}) =>
        /\ Len(imageFiles) = Cardinality(ImagePositions)
        /\ \A i \in ImagePositions :
              imageFiles[Cardinality({j \in ImagePositions : j <= i})]
                  = <<<<"photos">>, dirEntries[i]>>

\* a listing of c.PNG and another entry that is not an image, resolved
C13_Witness ==
    /\ fsKind = "dir"
    /\ pc = "loop"
    /\ Len(dirEntries) = 2
    /\ \E i \in 1..2 : dirEntries[i] = <<"c", ".PNG">>
    /\ \E i \in 1..2 : dirEntries[i][2] \in {".txt", ".tiff"}
    /\ imageFiles = <<<<<<"photos">>, <<"c", ".PNG">>>>>>

\* the sink has made its attempt: the file write or the JSON on standard output
SinkAttempted == fileWrites = 1 \/ stdoutJson # NoOutput

BeginsWithBrace(text) == text # <<>> /\ text[1] = TOpen

FirstOpen(text) ==
    LET opens == {i \in 1..Len(text) : text[i] = TOpen}
    IN IF opens = {} THEN 0 ELSE CHOOSE i \in opens : \A j \in opens : i <= j

LastClose(text) ==
    LET closes == {i \in 1..Len(text) : text[i] = TClose}
    IN IF closes = {} THEN 0 ELSE CHOOSE i \in closes : \A j \in closes : j <= i

ParsesAsJSON(text) == text # <<>> /\ ~JSONParseThrows(text)

ExtractionCase(text) ==
    LET trimmed == TrimText(text)
    IN IF BeginsWithBrace(trimmed) THEN ParsesAsJSON(trimmed)
       ELSE /\ 0 < FirstOpen(trimmed)
            /\ FirstOpen(trimmed) < LastClose(trimmed)
            /\ ParsesAsJSON(SubSeq(trimmed, FirstOpen(trimmed), LastClose(trimmed)))

\* C15: parseStructuredOutput gives an object exactly when the trimmed text
\* begins with "{" and parses as a whole, or does not begin with "{" and its
\* part from the first "{" to the last "}" parses; in every other case it
\* gives null and the image's record is the sentinel.
C15_ExtractionCases ==
    \A i \in 1..Len(results) :
        replies[i].kind = "text" =>
            /\ (parseStructuredOutput(replies[i].text) # JNull)
                   <=> ExtractionCase(replies[i].text)
            /\ ~ExtractionCase(replies[i].text) =>
                   results[i] = Sentinel(imageFiles[i])

\* an object found between prose by the greedy match, and a record made of it
C15_Witness ==
    /\ Len(results) = 1
    /\ replies[1] = Text(<<TTxt, TOpen, TMembers(OnlyCategory), TClose, TTxt>>)
    /\ results[1].category = <<"product">>

\* C15, its refused texts: two objects spanned by the greedy match give the
\* sentinel record
C15_TwoObjects ==
    /\ Len(results) = 1
    /\ replies[1] = Text(<<TTxt, TOpen, TClose, TOpen, TClose>>)
    /\ results[1] = Sentinel(imageFiles[1])

\* the object extracted from the i-th reply
Parsed(i) == parseStructuredOutput(TrimText(RawText(replies[i])))

Extracted(i) == replies[i].kind = "text" /\ Parsed(i) # JNull

Absent(v) == v.t \in {"undefined", "null"}

EmptyAfterTrim(v) == v.t = "str" /\ Trim(v.s) = <<>>

\* alt or, when alt is absent, altText
AltField(parsed) ==
    IF Absent(Get(parsed, "alt")) THEN Get(parsed, "altText") ELSE Get(parsed, "alt")

AltFallsBack(r, parsed) ==
    /\ (Absent(AltField(parsed)) \/ EmptyAfterTrim(AltField(parsed)))
           => r.alt = r.description
    /\ (/\ Absent(Get(parsed, "alt"))
        /\ Get(parsed, "altText").t = "str"
        /\ ~EmptyAfterTrim(Get(parsed, "altText")))
           => r.alt = Trim(Get(parsed, "altText").s)

\* C16 as stated: for every extracted response, an absent or blank alt (or
\* altText, when alt is absent) gives the record the description as its alt,
\* and an absent alt with a non-blank altText gives the trimmed altText.
C16_AsClaimed ==
    \A i \in 1..Len(results) :
        Extracted(i) => AltFallsBack(results[i], Parsed(i))

\* C16 as it holds: the same, for the extracted responses whose normalisation
\* does not throw; a response holding a value that String() cannot convert
\* gets the sentinel record, whose alt is not its description.
C16_AltFallback ==
    \A i \in 1..Len(results) :
        (Extracted(i) /\ ~NormaliseThrows(Parsed(i)))
            => AltFallsBack(results[i], Parsed(i))

\* {"description": " A cat. "} gives alt "A cat."
C16_Witness ==
    /\ Len(results) = 1
    /\ Extracted(1)
    /\ Parsed(1) = JObj("description" :> JStr(<<WS, "A cat.", WS>>))
    /\ results[1].alt = <<"A cat.">>

\* {"altText": " Cat photo"} gives alt "Cat photo"
C16_AltTextUsed ==
    /\ Len(results) = 1
    /\ Extracted(1)
    /\ Absent(Get(Parsed(1), "alt"))
    /\ results[1].alt = <<"Cat photo">>

\* the entries of a, in order: falsy ones dropped, the others converted to a
\* string and trimmed, those left empty dropped
RECURSIVE Sanitised(_)
Sanitised(a) ==
    IF a = <<>> THEN <<>>
    ELSE IF ~Truthy(Head(a)) THEN Sanitised(Tail(a))
    ELSE IF Trim(StringOf(Head(a))) = <<>> THEN Sanitised(Tail(a))
    ELSE <<Trim(StringOf(Head(a)))>> \o Sanitised(Tail(a))

TagsSanitised(r, parsed) ==
    r.tags = IF Get(parsed, "tags").t = "arr"
             THEN Sanitised(Get(parsed, "tags").a) ELSE <<>>

\* C17 as stated: for every extracted response the record's tags are the
\* provider's tags sanitised, in order, duplicates kept; none when tags is
\* absent or not a sequence.
C17_AsClaimed ==
    \A i \in 1..Len(results) :
        Extracted(i) => TagsSanitised(results[i], Parsed(i))

\* C17 as it holds: the same, for the extracted responses whose normalisation
\* does not throw; the others get the sentinel record, which has no tags.
C17_TagsSanitised ==
    \A i \in 1..Len(results) :
        (Extracted(i) /\ ~NormaliseThrows(Parsed(i)))
            => TagsSanitised(results[i], Parsed(i))

\* {"tags": ["Cat", "", " Dog ", 42, null]} gives ["Cat", "Dog", "42"]
C17_Witness ==
    /\ Len(results) = 1
    /\ Extracted(1)
    /\ Get(Parsed(1), "tags") =
           JArr(<<JStr(<<"Cat">>), JStr(<<>>), JStr(<<WS, "Dog", WS>>), JNum(42), JNull>>)
    /\ results[1].tags = <<<<"Cat">>, <<"Dog">>, <<"42">>>>

\* {"tags": ["cat", "cat", {}, true]} keeps the duplicate
C17_DuplicatesKept ==
    /\ Len(results) = 1
    /\ Extracted(1)
    /\ results[1].tags = <<<<"cat">>, <<"cat">>, <<"[object Object]">>, <<"true">>>>

\* present and not a string: a number, a boolean, an array, an object
PresentNotString(v) == v.t \in {"num", "bool", "arr", "obj"}

\* String(v).trim(), of a string or any other value
Converted(v) == IF v.t = "str" THEN Trim(v.s) ELSE Trim(StringOf(v))

\* C18 as stated: a description that is present but not a string gives the
\* record its string conversion, trimmed (0 gives "0", false gives "false");
\* the placeholder is used only when the description is absent or its
\* conversion is empty after trimming.
C18_AsClaimed ==
    \A i \in 1..Len(results) :
        Extracted(i) =>
            LET d == Get(Parsed(i), "description")
            IN /\ (PresentNotString(d) /\ Converted(d) # <<>>)
                      => results[i].description = Converted(d)
               /\ results[i].description = DESCRIPTION_UNAVAILABLE
                      => (Absent(d) \/ Converted(d) = <<>>)

\* C18 as it holds: only a truthy non-string description is converted; 0 and
\* false count as empty and give the placeholder; and a response whose
\* normalisation throws gets the sentinel record.
C18_DescriptionCoercion ==
    \A i \in 1..Len(results) :
        (Extracted(i) /\ ~NormaliseThrows(Parsed(i))) =>
            LET d == Get(Parsed(i), "description")
            IN /\ (PresentNotString(d) /\ Truthy(d) /\ Converted(d) # <<>>)
                      => results[i].description = Converted(d)
               /\ (PresentNotString(d) /\ ~Truthy(d))
                      => results[i].description = DESCRIPTION_UNAVAILABLE
               /\ results[i].description = DESCRIPTION_UNAVAILABLE
                      => (Absent(d) \/ ~Truthy(d) \/ Converted(d) = <<>>)

\* {"description": 42} gives "42"
C18_Witness ==
    /\ Len(results) = 1
    /\ Extracted(1)
    /\ Get(Parsed(1), "description") = JNum(42)
    /\ results[1].description = <<"42">>

\* {"description": 0} and {"description": false} give the placeholder
C18_FalsyGivesPlaceholder ==
    /\ Len(results) = 1
    /\ Extracted(1)
    /\ Get(Parsed(1), "description") \in {JNum(0), JBool(FALSE)}
    /\ results[1].description = DESCRIPTION_UNAVAILABLE

\* the input is an existing directory without an entry of a supported extension
EmptyDirectory ==
    /\ fsKind = "dir"
    /\ \A i \in 1..Len(dirEntries) :
           ToLowerCase(dirEntries[i][2]) \notin SUPPORTED_EXTENSIONS

Said(message) == \E k \in 1..Len(console) : console[k] = message

\* C19: a run on an existing directory without a supported entry, with the
\* credential present, ends with exit code 0 having made no provider call,
\* written no file, printed no JSON and no success banner; and no step of
\* such a run changes the output file.
C19_EmptyDirectoryRun ==
    /\ []((EmptyDirectory /\ model = "client" /\ pc \notin {"start", "client", "collect"}) =>
            /\ pc = "done"
            /\ exitCode = 0
            /\ providerCalls = 0
            /\ fileWrites = 0
            /\ stdoutJson = NoOutput
            /\ results = <<>>
            /\ ~Said("done")
            /\ ~Said("output file created")
            /\ Said("warning: no supported images"))
    /\ [][EmptyDirectory => outFile' = outFile]_vars

\* such a run has ended, next to an output file of an earlier run
C19_Witness ==
    /\ EmptyDirectory
    /\ dirEntries # <<>>
    /\ model = "client"
    /\ pc = "done"
    /\ ~json
    /\ outFile = OldFile

====
